---- MODULE Spec2Model ----
(***************************************************************************)
(* The UTXO pallet of pallets/utxo/src/lib.rs as a state machine: the      *)
(* storage items UtxoStore and RewardTotal, the dispatchable spend and the *)
(* block hook on_finalize.                                                 *)
(*                                                                         *)
(* Abstractions.  Value is u128 in the source; here it is 0..MaxValue and  *)
(* every checked_add fails above MaxValue.  BlakeTwo256 is taken to be     *)
(* collision free: a hash is the tagged preimage.  An sr25519 signature is *)
(* the triple (signer, message, nonce): signing is randomised, so one key  *)
(* has several distinct valid signatures over one message.                 *)
(***************************************************************************)
EXTENDS Integers, Sequences, FiniteSets, TLC

\* Largest Value (u128::MAX in the source, scaled down).
MaxValue == 3
\* Number of successful spends explored.
MaxSpends == 2
\* Last block height whose on_finalize is explored.
MaxBlock == 1

Pubkeys == {"K1", "K2"}
\* FindAuthor::find_author yields None or Some(author).
None == "None"
Authors == {"K2"}

------------------------------------------------------------------------------
(* Results of the fallible functions: Ok(val) or Err(err). *)
Ok(v) == [ok |-> TRUE, val |-> v, err |-> ""]
Err(e) == [ok |-> FALSE, val |-> 0, err |-> e]

\* u128::checked_add
checked_add(a, b) == IF a + b > MaxValue THEN Err("overflow") ELSE Ok(a + b)

\* SCALE encoding: injective on each type.
encode(tx) == <<"Transaction", tx.inputs, tx.outputs>>

\* BlakeTwo256::hash_of
hash_of(preimage) == <<"H256", preimage>>

\* H512::zero()
ZeroSig == [signer |-> "nobody", msg |-> <<>>, nonce |-> 0]

\* A signature made with the secret key of pubkey k over msg.
Sign(k, msg, n) == [signer |-> k, msg |-> msg, nonce |-> n]

\* sp_io::crypto::sr25519_verify
sr25519_verify(sig, msg, pubkey) == sig.signer = pubkey /\ sig.msg = msg

HALVING_EVERY_BLOCKS == 210000
INITIAL_ISSUANCE == 50

\* The width of INITIAL_ISSUANCE, a u32.
U32_BITS == 32

\* x >> n on unsigned integers, for n below the width.
RECURSIVE shr(_, _)
shr(x, n) == IF n = 0 \/ x = 0 THEN x ELSE shr(x \div 2, n - 1)

\* What a call of issuance does: it returns value, or it panics; shift is the
\* amount it asked INITIAL_ISSUANCE to be shifted by (-1: no shift is made).
NotIssued == [called |-> FALSE, checks |-> FALSE, panic |-> FALSE, shift |-> -1, value |-> 0]
Issued(checks, panic, shift, value) ==
    [called |-> TRUE, checks |-> checks, panic |-> panic, shift |-> shift, value |-> value]

\* HalvingIssuance::issuance(block).  A shift of a u32 by 32 or more is an
\* arithmetic overflow: a build with overflow checks panics there, a build
\* without them shifts by the amount modulo 32.
issuance(block, overflow_checks) ==
    LET halvings == block \div HALVING_EVERY_BLOCKS IN
    IF halvings >= 64 THEN Issued(overflow_checks, FALSE, -1, 0)
    ELSE IF halvings < U32_BITS
    THEN Issued(overflow_checks, FALSE, halvings, shr(INITIAL_ISSUANCE, halvings))
    ELSE IF overflow_checks THEN Issued(overflow_checks, TRUE, halvings, 0)
    ELSE Issued(overflow_checks, FALSE, halvings,
                shr(INITIAL_ISSUANCE, halvings % U32_BITS))

TransactionOutput(v, k) == [value |-> v, pubkey |-> k]
TransactionInput(o, s) == [outpoint |-> o, sigscript |-> s]

\* The genesis configuration genesis_utxos.
GenesisUtxos == {TransactionOutput(MaxValue, "K1"), TransactionOutput(MaxValue, "K2")}

\* The build closure of UtxoStore: each genesis output under the hash of itself.
GenesisStore ==
    [k \in {hash_of(<<"Output", u>>) : u \in GenesisUtxos} |-> k[2][2]]

VARIABLES
    UtxoStore,     \* map H256 => TransactionOutput (a function on the present keys)
    RewardTotal,   \* Value
    block_number,  \* frame_system block_number of the block being built
    events,        \* the events deposited by the last call
    last,          \* the last call: which, with what author, and how it ended
    pre,           \* UtxoStore and RewardTotal as the last call found them
    applied,       \* the transactions spend has accepted so far
    nSpends,       \* how many spends have succeeded
    queried,       \* the transaction validate_transaction was asked about, if any
    verdict,       \* what validate_transaction answered
    height,        \* the block height issuance is asked about
    subsidy,       \* what issuance did at height
    earlier        \* what issuance did at the height asked about before

vars == <<UtxoStore, RewardTotal, block_number, events, last, pre, applied, nSpends,
          queried, verdict, height, subsidy, earlier>>

\* The variables of the read-only calls.
asked == <<queried, verdict, height, subsidy, earlier>>

------------------------------------------------------------------------------
\* UtxoStore::remove / UtxoStore::insert on a store s
remove(s, key) == [k \in DOMAIN s \ {key} |-> s[k]]
insert(s, key, output) == [k \in DOMAIN s \cup {key} |-> IF k = key THEN output ELSE s[k]]

Range(seq) == {seq[i] : i \in DOMAIN seq}

get_simple_tx(tx) ==
    encode([inputs |-> [i \in DOMAIN tx.inputs |->
                            TransactionInput(tx.inputs[i].outpoint, ZeroSig)],
            outputs |-> tx.outputs])

\* The key of output number index (zero based) of tx.
output_key(tx, index) == hash_of(<<"TxOutput", encode(tx), index>>)

\* The loop over tx.inputs without the signature check.
RECURSIVE input_loop_unverified(_, _, _, _)
input_loop_unverified(s, tx, i, total) ==
    IF i > Len(tx.inputs) THEN Ok(total)
    ELSE LET input == tx.inputs[i] IN
         IF input.outpoint \in DOMAIN s
         THEN LET input_utxo == s[input.outpoint]
                  sum == checked_add(total, input_utxo.value) IN
              IF ~sum.ok THEN Err("input value overflow")
              ELSE input_loop_unverified(s, tx, i + 1, sum.val)
         ELSE input_loop_unverified(s, tx, i + 1, total)

\* The loop over tx.inputs from position i on, total_input so far being total.
RECURSIVE input_loop(_, _, _, _)
input_loop(s, tx, i, total) ==
    IF i > Len(tx.inputs) THEN Ok(total)
    ELSE LET input == tx.inputs[i] IN
         IF input.outpoint \in DOMAIN s
         THEN LET input_utxo == s[input.outpoint] IN
              IF ~sr25519_verify(input.sigscript, get_simple_tx(tx), input_utxo.pubkey)
              THEN Err("Signature must be valid")
              ELSE LET sum == checked_add(total, input_utxo.value) IN
                   IF ~sum.ok THEN Err("input value overflow")
                   ELSE input_loop(s, tx, i + 1, sum.val)
         ELSE input_loop(s, tx, i + 1, total)

\* The loop over tx.outputs without the check that each value is nonzero.
RECURSIVE output_loop_any_value(_, _, _, _)
output_loop_any_value(s, tx, i, total) ==
    IF i > Len(tx.outputs) THEN Ok(total)
    ELSE LET output == tx.outputs[i] IN
         IF output_key(tx, i - 1) \in DOMAIN s THEN Err("output already exists")
         ELSE LET sum == checked_add(total, output.value) IN
              IF ~sum.ok THEN Err("output value overflow")
              ELSE output_loop_any_value(s, tx, i + 1, sum.val)

\* The loop over tx.outputs from position i on (output_index = i - 1).
RECURSIVE output_loop(_, _, _, _)
output_loop(s, tx, i, total) ==
    IF i > Len(tx.outputs) THEN Ok(total)
    ELSE LET output == tx.outputs[i] IN
         IF ~(output.value > 0) THEN Err("output valud must be nonzero")
         ELSE IF output_key(tx, i - 1) \in DOMAIN s THEN Err("output already exists")
         ELSE LET sum == checked_add(total, output.value) IN
              IF ~sum.ok THEN Err("output value overflow")
              ELSE output_loop(s, tx, i + 1, sum.val)

\* validate_transaction returning total_input, the subtraction forgotten.
validate_transaction_no_sub(s, tx) ==
    IF Len(tx.inputs) = 0 THEN Err("no inputs")
    ELSE IF Len(tx.outputs) = 0 THEN Err("no outputs")
    ELSE IF Cardinality(Range(tx.inputs)) # Len(tx.inputs)
    THEN Err("Each input must be used once")
    ELSE IF Cardinality(Range(tx.outputs)) # Len(tx.outputs)
    THEN Err("Each output must be defined only once")
    ELSE LET total_input == input_loop(s, tx, 1, 0) IN
         IF ~total_input.ok THEN total_input
         ELSE LET total_output == output_loop(s, tx, 1, 0) IN
              IF ~total_output.ok THEN total_output
              ELSE IF ~(total_input.val >= total_output.val)
              THEN Err("output value must not exceed the input value")
              ELSE Ok(total_input.val)

\* validate_transaction without the check that there are outputs.
validate_transaction_no_outputs(s, tx) ==
    IF Len(tx.inputs) = 0 THEN Err("no inputs")
    ELSE IF Cardinality(Range(tx.inputs)) # Len(tx.inputs)
    THEN Err("Each input must be used once")
    ELSE IF Cardinality(Range(tx.outputs)) # Len(tx.outputs)
    THEN Err("Each output must be defined only once")
    ELSE LET total_input == input_loop(s, tx, 1, 0) IN
         IF ~total_input.ok THEN total_input
         ELSE LET total_output == output_loop(s, tx, 1, 0) IN
              IF ~total_output.ok THEN total_output
              ELSE IF ~(total_input.val >= total_output.val)
              THEN Err("output value must not exceed the input value")
              ELSE Ok(total_input.val - total_output.val)

\* validate_transaction without the check that each input is used once.
validate_transaction_any_inputs(s, tx) ==
    IF Len(tx.inputs) = 0 THEN Err("no inputs")
    ELSE IF Len(tx.outputs) = 0 THEN Err("no outputs")
    ELSE IF Cardinality(Range(tx.outputs)) # Len(tx.outputs)
    THEN Err("Each output must be defined only once")
    ELSE LET total_input == input_loop(s, tx, 1, 0) IN
         IF ~total_input.ok THEN total_input
         ELSE LET total_output == output_loop(s, tx, 1, 0) IN
              IF ~total_output.ok THEN total_output
              ELSE IF ~(total_input.val >= total_output.val)
              THEN Err("output value must not exceed the input value")
              ELSE Ok(total_input.val - total_output.val)

\* validate_transaction against the store s: Ok(reward) or Err(message).
validate_transaction(s, tx) ==
    IF Len(tx.inputs) = 0 THEN Err("no inputs")
    ELSE IF Len(tx.outputs) = 0 THEN Err("no outputs")
    ELSE IF Cardinality(Range(tx.inputs)) # Len(tx.inputs)
    THEN Err("Each input must be used once")
    ELSE IF Cardinality(Range(tx.outputs)) # Len(tx.outputs)
    THEN Err("Each output must be defined only once")
    ELSE LET total_input == input_loop(s, tx, 1, 0) IN
         IF ~total_input.ok THEN total_input
         ELSE LET total_output == output_loop(s, tx, 1, 0) IN
              IF ~total_output.ok THEN total_output
              ELSE IF ~(total_input.val >= total_output.val)
              THEN Err("output value must not exceed the input value")
              ELSE Ok(total_input.val - total_output.val)

\* The removal loop of update_storage, from input number i on.
RECURSIVE remove_inputs(_, _, _)
remove_inputs(s, tx, i) ==
    IF i > Len(tx.inputs) THEN s
    ELSE remove_inputs(remove(s, tx.inputs[i].outpoint), tx, i + 1)

\* The insertion loop with index incremented before the key is derived.
RECURSIVE insert_outputs_index_first(_, _, _)
insert_outputs_index_first(s, tx, i) ==
    IF i > Len(tx.outputs) THEN s
    ELSE insert_outputs_index_first(insert(s, output_key(tx, i), tx.outputs[i]), tx, i + 1)

\* The insertion loop with index never incremented.
RECURSIVE insert_outputs_one_index(_, _, _)
insert_outputs_one_index(s, tx, i) ==
    IF i > Len(tx.outputs) THEN s
    ELSE insert_outputs_one_index(insert(s, output_key(tx, 0), tx.outputs[i]), tx, i + 1)

\* The insertion loop of update_storage, from output number i on (index = i - 1).
RECURSIVE insert_outputs(_, _, _)
insert_outputs(s, tx, i) ==
    IF i > Len(tx.outputs) THEN s
    ELSE insert_outputs(insert(s, output_key(tx, i - 1), tx.outputs[i]), tx, i + 1)

\* update_storage putting the reward of this transaction as the new total.
update_storage_put_reward(s, rt, tx, reward) ==
    LET new_total == checked_add(rt, reward) IN
    IF ~new_total.ok
    THEN [ok |-> FALSE, err |-> "reward overflow", store |-> s, total |-> rt]
    ELSE [ok |-> TRUE, err |-> "",
          store |-> insert_outputs(remove_inputs(s, tx, 1), tx, 1),
          total |-> reward]

\* update_storage with the inputs removed before the overflow check.
update_storage_remove_first(s, rt, tx, reward) ==
    LET new_total == checked_add(rt, reward) IN
    IF ~new_total.ok
    THEN [ok |-> FALSE, err |-> "reward overflow",
          store |-> remove_inputs(s, tx, 1), total |-> rt]
    ELSE [ok |-> TRUE, err |-> "",
          store |-> insert_outputs(remove_inputs(s, tx, 1), tx, 1),
          total |-> new_total.val]

\* update_storage on store s and reward total rt: the storage it leaves.
\* (index is a u64 counting the outputs of one transaction: its checked_add
\* cannot fail.)
update_storage(s, rt, tx, reward) ==
    LET new_total == checked_add(rt, reward) IN
    IF ~new_total.ok
    THEN [ok |-> FALSE, err |-> "reward overflow", store |-> s, total |-> rt]
    ELSE [ok |-> TRUE, err |-> "",
          store |-> insert_outputs(remove_inputs(s, tx, 1), tx, 1),
          total |-> new_total.val]

TransactionSuccess(tx) == <<"TransactionSuccess", tx>>
RewardsIssued(value, hash) == <<"RewardsIssued", value, hash>>
RewardsWasted == <<"RewardsWasted">>

\* A call's record: found is what find_author gave on_finalize; accepted holds
\* the transaction validate_transaction accepted, if it accepted one; ok tells
\* Ok from Err, and from names the callee whose error spend returned.
Called(call, found, accepted, ok, from) ==
    [call |-> call, found |-> found, accepted |-> accepted, ok |-> ok, from |-> from]

Init ==
    /\ UtxoStore = GenesisStore
    /\ RewardTotal = 0
    /\ block_number = 1
    /\ events = <<>>
    /\ last = Called("genesis", None, <<>>, TRUE, "")
    /\ pre = [store |-> GenesisStore, total |-> 0]
    /\ applied = {}
    /\ nSpends = 0
    /\ queried = <<>>
    /\ verdict = Ok(0)
    /\ height = 0
    /\ subsidy = NotIssued
    /\ earlier = NotIssued

\* The dispatchable spend(_origin, tx).
spend(tx) ==
    LET reward == validate_transaction(UtxoStore, tx)
        updated == update_storage(UtxoStore, RewardTotal, tx, reward.val)
    IN
    /\ pre' = [store |-> UtxoStore, total |-> RewardTotal]
    /\ UNCHANGED <<block_number, asked>>
    /\ IF ~reward.ok
       THEN /\ last' = Called("spend", None, <<>>, FALSE, "validate_transaction")
            /\ events' = <<>>
            /\ UNCHANGED <<UtxoStore, RewardTotal, applied, nSpends>>
       ELSE /\ UtxoStore' = updated.store
            /\ RewardTotal' = updated.total
            /\ IF ~updated.ok
               THEN /\ last' = Called("spend", None, <<tx>>, FALSE, "update_storage")
                    /\ events' = <<>>
                    /\ UNCHANGED <<applied, nSpends>>
               ELSE /\ last' = Called("spend", None, <<tx>>, TRUE, "")
                    /\ events' = <<TransactionSuccess(tx)>>
                    /\ applied' = applied \cup {tx}
                    /\ nSpends' = nSpends + 1

\* disperse_reward(author)
disperse_reward(author) ==
    LET reward == RewardTotal
        utxo == TransactionOutput(reward, author)
        current_block == block_number
        hash == hash_of(<<"OutputAtBlock", utxo, current_block>>)
    IN
    /\ RewardTotal' = 0
    /\ UtxoStore' = insert(UtxoStore, hash, utxo)
    /\ events' = <<RewardsIssued(reward, hash)>>

\* on_finalize taking the reward total before it looks for the author.
on_finalize_take_first(found) ==
    /\ block_number <= MaxBlock
    /\ pre' = [store |-> UtxoStore, total |-> RewardTotal]
    /\ last' = Called("on_finalize", found, <<>>, TRUE, "")
    /\ block_number' = block_number + 1
    /\ UNCHANGED <<applied, nSpends, asked>>
    /\ IF found = None
       THEN /\ events' = <<RewardsWasted>>
            /\ RewardTotal' = 0
            /\ UNCHANGED UtxoStore
       ELSE disperse_reward(found)

\* on_finalize, the host having resolved the block author to found (None or
\* an author); the host then starts the next block.
on_finalize(found) ==
    /\ block_number <= MaxBlock
    /\ pre' = [store |-> UtxoStore, total |-> RewardTotal]
    /\ last' = Called("on_finalize", found, <<>>, TRUE, "")
    /\ block_number' = block_number + 1
    /\ UNCHANGED <<applied, nSpends, asked>>
    /\ IF found = None
       THEN /\ events' = <<RewardsWasted>>
            /\ UNCHANGED <<UtxoStore, RewardTotal>>
       ELSE disperse_reward(found)

------------------------------------------------------------------------------
(* The transactions submitted to spend. *)

\* The outpoints a submitter names: the keys in the store and the genesis
\* keys, spent or not.
Outpoints == DOMAIN UtxoStore \cup DOMAIN GenesisStore
Outputs == {TransactionOutput(v, k) : v \in 0..MaxValue, k \in Pubkeys}

\* The sequences over S of length at most 2.
ShortSeqs(S) == {<<>>} \cup {<<a>> : a \in S} \cup {<<a, b>> : a, b \in S}

\* The signatures the submitters can make over the simple transaction: K1
\* signs twice, K2 once.
Signers == {<<"K1", 1>>, <<"K1", 2>>, <<"K2", 1>>}

\* The sigscripts a submitter may put on an input of the transaction whose
\* simple transaction is msg: no signature, a signature K1 made over another
\* transaction (the same inputs, no outputs), or a signature over msg.
Sigscripts(msg) ==
    {ZeroSig, Sign("K1", <<"Transaction", msg[2], <<>>>>, 1)}
        \cup {Sign(kn[1], msg, kn[2]) : kn \in Signers}

MakeTx(outpoints, sigs, outputs) ==
    [inputs |-> [i \in DOMAIN outpoints |-> TransactionInput(outpoints[i], sigs[i])],
     outputs |-> outputs]

\* A new transaction of at most three inputs and outputs together, submitted
\* while fewer than MaxSpends spends have succeeded.
SpendNew ==
    /\ nSpends < MaxSpends
    /\ \E outpoints \in ShortSeqs(Outpoints), outputs \in ShortSeqs(Outputs) :
         /\ Len(outpoints) + Len(outputs) <= 3
         /\ LET msg == get_simple_tx(MakeTx(outpoints,
                                            [i \in DOMAIN outpoints |-> ZeroSig], outputs))
            IN \E sigs \in [DOMAIN outpoints -> Sigscripts(msg)] :
                 spend(MakeTx(outpoints, sigs, outputs))

\* A transaction spend has accepted before, submitted again.
SpendAgain == \E tx \in applied : spend(tx)

Finalize == \E found \in {None} \cup Authors : on_finalize(found)

Next == SpendNew \/ SpendAgain \/ Finalize

Spec == Init /\ [][Next]_vars

------------------------------------------------------------------------------
(* The properties. *)

\* The sum of the values of the entries of s under the keys ks.
RECURSIVE SumOver(_, _)
SumOver(s, ks) ==
    IF ks = {} THEN 0
    ELSE LET k == CHOOSE x \in ks : TRUE IN s[k].value + SumOver(s, ks \ {k})

StoreTotal(s) == SumOver(s, DOMAIN s)

\* The sum of f[i] over the positions of the sequence f of naturals.
RECURSIVE SumSeq(_, _)
SumSeq(f, n) == IF n = 0 THEN 0 ELSE f[n] + SumSeq(f, n - 1)

SpendSucceeded == last.call = "spend" /\ last.ok
Dispersed == last.call = "on_finalize" /\ last.found # None

\* The transaction of the last spend, had validate_transaction accepted it.
LastTx == last.accepted[1]

\* The value the entry named by each input of tx had in s (0 if s had none).
InputValues(s, tx) ==
    [i \in DOMAIN tx.inputs |->
        IF tx.inputs[i].outpoint \in DOMAIN s THEN s[tx.inputs[i].outpoint].value ELSE 0]
OutputValues(tx) == [i \in DOMAIN tx.outputs |-> tx.outputs[i].value]

\* C1: store total + RewardTotal is the genesis total plus the subsidies
\* injected at dispersals: no spend and no on_finalize without an author
\* changes it, and a dispersal only adds to it.  (It fails.)
C1_ValueConserved ==
    LET before == StoreTotal(pre.store) + pre.total
        after == StoreTotal(UtxoStore) + RewardTotal
    IN IF Dispersed THEN after >= before ELSE after = before

\* C2: no accepted transaction has two inputs naming the same outpoint.
\* (It fails.)
C2_EachInputOnce ==
    SpendSucceeded =>
        \A i, j \in DOMAIN LastTx.inputs :
            i # j => LastTx.inputs[i].outpoint # LastTx.inputs[j].outpoint

\* C3: every input of an accepted transaction names a key the store held when
\* the transaction was validated.  (It fails.)
C3_EachInputExists ==
    last.call = "spend" /\ last.accepted # <<>> =>
        \A i \in DOMAIN LastTx.inputs : LastTx.inputs[i].outpoint \in DOMAIN pre.store

\* C4: for an accepted transaction the fee validate_transaction returns is
\* total_input - total_output (total_input adding, input by input, the value
\* of the entry the input names; total_output adding the output values), with
\* total_output <= total_input, and a successful spend raises RewardTotal by
\* that fee.
C4_FeeIsDifference ==
    last.call = "spend" /\ last.accepted # <<>> =>
        LET total_input == SumSeq(InputValues(pre.store, LastTx), Len(LastTx.inputs))
            total_output == SumSeq(OutputValues(LastTx), Len(LastTx.outputs))
        IN /\ validate_transaction(pre.store, LastTx) = Ok(total_input - total_output)
           /\ total_output <= total_input
           /\ last.ok => RewardTotal = pre.total + (total_input - total_output)

\* C4's case: a spend of two outputs that succeeded and paid a fee.
C4_Witness ==
    /\ SpendSucceeded
    /\ RewardTotal > pre.total
    /\ Len(LastTx.outputs) = 2

\* C5: a successful spend removes exactly len(inputs) keys and adds exactly
\* len(outputs) keys.  (It fails.)
C5_StoreSizeChange ==
    SpendSucceeded =>
        /\ Cardinality(DOMAIN pre.store \ DOMAIN UtxoStore) = Len(LastTx.inputs)
        /\ Cardinality(DOMAIN UtxoStore \ DOMAIN pre.store) = Len(LastTx.outputs)
        /\ Cardinality(DOMAIN UtxoStore)
             = Cardinality(DOMAIN pre.store) + Len(LastTx.outputs) - Len(LastTx.inputs)

\* C6: a spend that returns an error, from validate_transaction or from the
\* overflow check of update_storage, leaves UtxoStore and RewardTotal as they
\* were and deposits no event.
C6_FailedSpendChangesNothing ==
    last.call = "spend" /\ ~last.ok =>
        /\ UtxoStore = pre.store
        /\ RewardTotal = pre.total
        /\ events = <<>>

\* C6's case: spend returned the reward overflow error of update_storage.
C6_Witness ==
    /\ last.call = "spend"
    /\ ~last.ok
    /\ last.from = "update_storage"
    /\ pre.total + validate_transaction(pre.store, LastTx).val > MaxValue

\* C7: a transaction spend has accepted is, submitted again in any later
\* state, rejected by the check "output already exists".  (It fails.)
C7_ReplayHitsCollision ==
    \A tx \in applied :
        validate_transaction(UtxoStore, tx) = Err("output already exists")

\* C8: an on_finalize that resolves an author resets RewardTotal to zero and
\* inserts exactly one output, of value the previous RewardTotal plus the
\* issuance of the block height, owned by the author, under the hash of
\* (output, block height); RewardsIssued carries that amount and key.
\* (It fails.)
C8_RewardWithIssuance ==
    Dispersed =>
        LET utxo == TransactionOutput(pre.total + issuance(block_number - 1, TRUE).value,
                                     last.found)
            key == hash_of(<<"OutputAtBlock", utxo, block_number - 1>>)
        IN /\ RewardTotal = 0
           /\ UtxoStore = insert(pre.store, key, utxo)
           /\ key \notin DOMAIN pre.store
           /\ events = <<RewardsIssued(utxo.value, key)>>

\* C9: an on_finalize that resolves no author leaves RewardTotal and UtxoStore
\* as they were and deposits RewardsWasted alone.
C9_NoAuthorKeepsReward ==
    last.call = "on_finalize" /\ last.found = None =>
        /\ RewardTotal = pre.total
        /\ UtxoStore = pre.store
        /\ events = <<RewardsWasted>>

\* C9's case: on_finalize found no author while fees were waiting.
C9_Witness ==
    /\ last.call = "on_finalize"
    /\ last.found = None
    /\ pre.total > 0

\* C10: no entry of the store has value 0 (the genesis outputs have none).
\* (It fails.)
C10_NonzeroValues == \A k \in DOMAIN UtxoStore : UtxoStore[k].value > 0

\* The store keys the inputs of tx name.
InputKeys(tx) == {tx.inputs[i].outpoint : i \in DOMAIN tx.inputs}

\* The encoded transaction tx with every sigscript zeroed.
ZeroedTx(tx) ==
    <<"Transaction",
      [i \in DOMAIN tx.inputs |-> [outpoint |-> tx.inputs[i].outpoint, sigscript |-> ZeroSig]],
      tx.outputs>>

\* The key of output number j (from 1) of tx: hash(encode(tx), j - 1).
KeyOfOutput(tx, j) ==
    <<"H256", <<"TxOutput", <<"Transaction", tx.inputs, tx.outputs>>, j - 1>>>>

\* C16: an entry leaves the store only in a successful spend, and every input
\* of that spend that names a live entry carries a signature made with the
\* entry's pubkey over the transaction with every sigscript zeroed.
C16_SpentOnlyWithSignature ==
    /\ \A k \in DOMAIN pre.store \ DOMAIN UtxoStore :
          SpendSucceeded /\ k \in InputKeys(LastTx)
    /\ SpendSucceeded =>
          \A i \in DOMAIN LastTx.inputs :
             LastTx.inputs[i].outpoint \in DOMAIN pre.store =>
                /\ LastTx.inputs[i].sigscript.signer
                      = pre.store[LastTx.inputs[i].outpoint].pubkey
                /\ LastTx.inputs[i].sigscript.msg = ZeroedTx(LastTx)

\* C16 happens: a spend succeeded and took two entries out of the store.
C16_Witness ==
    /\ SpendSucceeded
    /\ Cardinality(DOMAIN pre.store \ DOMAIN UtxoStore) = 2

\* C17: after a successful spend(tx) no input outpoint of tx is in the store,
\* the key hash(encode(tx), i) maps to tx.outputs[i] for each output index i,
\* and every other entry is as it was.
C17_SpendPostState ==
    SpendSucceeded =>
        LET newKeys == {KeyOfOutput(LastTx, j) : j \in DOMAIN LastTx.outputs} IN
        /\ \A i \in DOMAIN LastTx.inputs : LastTx.inputs[i].outpoint \notin DOMAIN UtxoStore
        /\ \A j \in DOMAIN LastTx.outputs :
              /\ KeyOfOutput(LastTx, j) \in DOMAIN UtxoStore
              /\ UtxoStore[KeyOfOutput(LastTx, j)] = LastTx.outputs[j]
        /\ DOMAIN UtxoStore \ newKeys = DOMAIN pre.store \ (InputKeys(LastTx) \cup newKeys)
        /\ \A k \in DOMAIN UtxoStore \ newKeys : UtxoStore[k] = pre.store[k]

\* C17 happens: a spend with two outputs succeeded while the store held an
\* entry it does not name.
C17_Witness ==
    /\ SpendSucceeded
    /\ Len(LastTx.outputs) = 2
    /\ DOMAIN pre.store \ InputKeys(LastTx) # {}
    /\ DOMAIN pre.store \cap InputKeys(LastTx) # {}

C19_RewardTotalMonotone ==
    /\ last.call = "spend" \/ (last.call = "on_finalize" /\ last.found = None)
          => RewardTotal >= pre.total
    /\ RewardTotal = 0 /\ pre.total > 0 => Dispersed

\* C19 happens: a spend without a fee succeeded while a reward was pending.
C19_Witness ==
    /\ SpendSucceeded
    /\ pre.total > 0
    /\ RewardTotal = pre.total

------------------------------------------------------------------------------
(* validate_transaction called on its own, as the last step observed: the
   ledger runs as in Spec, then a transaction is validated and not spent. *)

\* validate_transaction taking each input's output out of the store to read it.
validate_taking(tx) ==
    /\ queried' = <<tx>>
    /\ verdict' = validate_transaction(UtxoStore, tx)
    /\ last' = Called("validate_transaction", None, <<>>, verdict'.ok, "")
    /\ pre' = [store |-> UtxoStore, total |-> RewardTotal]
    /\ UtxoStore' = remove_inputs(UtxoStore, tx, 1)
    /\ UNCHANGED <<RewardTotal, block_number, events, applied, nSpends,
                   height, subsidy, earlier>>

\* A call of validate_transaction(tx): it reads the store and writes nothing.
validate(tx) ==
    /\ queried' = <<tx>>
    /\ verdict' = validate_transaction(UtxoStore, tx)
    /\ last' = Called("validate_transaction", None, <<>>, verdict'.ok, "")
    /\ pre' = [store |-> UtxoStore, total |-> RewardTotal]
    /\ UNCHANGED <<UtxoStore, RewardTotal, block_number, events, applied, nSpends,
                   height, subsidy, earlier>>

\* The transactions of SpendNew, validated where SpendNew submits them.
Validate ==
    /\ queried = <<>>
    /\ nSpends < MaxSpends
    /\ \E outpoints \in ShortSeqs(Outpoints), outputs \in ShortSeqs(Outputs) :
         /\ Len(outpoints) + Len(outputs) <= 3
         /\ LET msg == get_simple_tx(MakeTx(outpoints,
                                            [i \in DOMAIN outpoints |-> ZeroSig], outputs))
            IN \E sigs \in [DOMAIN outpoints -> Sigscripts(msg)] :
                 validate(MakeTx(outpoints, sigs, outputs))

Ledger == queried = <<>> /\ Next

ValidateNext == Ledger \/ Validate

ValidateSpec == Init /\ [][ValidateNext]_vars

\* The transaction validated and the store it was validated against.
Queried == queried[1]
Validated == queried # <<>>

\* Two inputs of tx are the same input: same outpoint, same sigscript.
HasIdenticalInputs(tx) ==
    \E i, j \in DOMAIN tx.inputs : i # j /\ tx.inputs[i] = tx.inputs[j]

\* C12 as stated: a transaction with two identical inputs is always rejected
\* with the duplicate-input error.  (It fails: with no outputs the error is
\* "no outputs".)
C12_DuplicateInputError ==
    Validated /\ HasIdenticalInputs(Queried)
        => verdict = Err("Each input must be used once")

\* C12 amended: a transaction with two identical inputs is always rejected;
\* when it has at least one output the error is the duplicate-input error,
\* whether or not the referenced output exists and whatever the sigscript is.
C12_DuplicateInputRejected ==
    Validated /\ HasIdenticalInputs(Queried)
        => /\ ~verdict.ok
           /\ Queried.outputs # <<>> => verdict = Err("Each input must be used once")

\* C12 happens: a validated transaction with an output and two identical
\* inputs, which name a live entry and carry a sigscript that does not verify.
C12_Witness ==
    /\ Validated
    /\ HasIdenticalInputs(Queried)
    /\ Queried.outputs # <<>>
    /\ Queried.inputs[1].outpoint \in DOMAIN UtxoStore
    /\ Queried.inputs[1].sigscript.signer # UtxoStore[Queried.inputs[1].outpoint].pubkey
    /\ verdict = Err("Each input must be used once")

\* Input i of tx names a live entry and carries its owner's signature over
\* the simple transaction.
SignedByOwner(store, tx, i) ==
    /\ tx.inputs[i].outpoint \in DOMAIN store
    /\ tx.inputs[i].sigscript.signer = store[tx.inputs[i].outpoint].pubkey
    /\ tx.inputs[i].sigscript.msg = get_simple_tx(tx)

\* C13: a transaction with no inputs or with no outputs is rejected, in every
\* store state and whatever else it holds.
C13_EmptyRejected ==
    Validated /\ (Queried.inputs = <<>> \/ Queried.outputs = <<>>) => ~verdict.ok

\* C13 happens: a validated transaction whose one input is live and signed
\* by its owner and which has no outputs.
C13_Witness ==
    /\ Validated
    /\ Len(Queried.inputs) = 1
    /\ SignedByOwner(UtxoStore, Queried, 1)
    /\ Queried.outputs = <<>>
    /\ ~verdict.ok

\* C14: a transaction with an output of value 0 is rejected, also when its
\* inputs exist, are signed and cover the outputs.
C14_ZeroOutputRejected ==
    Validated /\ (\E j \in DOMAIN Queried.outputs : Queried.outputs[j].value = 0)
        => ~verdict.ok

\* C14 happens: a validated transaction whose one input is live and signed by
\* its owner and whose one output has value 0; the value is what rejects it.
C14_Witness ==
    /\ Validated
    /\ Len(Queried.inputs) = 1
    /\ SignedByOwner(UtxoStore, Queried, 1)
    /\ Len(Queried.outputs) = 1
    /\ Queried.outputs[1].value = 0
    /\ verdict = Err("output valud must be nonzero")

\* C15: validate_transaction leaves UtxoStore and RewardTotal as they were,
\* when it accepts and when it rejects, and asked again about the same
\* transaction in the state it left it answers the same.
C15_ValidateReadsOnly ==
    Validated =>
        /\ UtxoStore = pre.store
        /\ RewardTotal = pre.total
        /\ validate_transaction(UtxoStore, Queried) = verdict

\* C15 happens: a transaction was validated and accepted while the store held
\* the outputs it spends and a reward was pending.
C15_Witness ==
    /\ Validated
    /\ verdict.ok
    /\ SignedByOwner(pre.store, Queried, 1)
    /\ pre.total > 0

------------------------------------------------------------------------------
(* The issuance policy on its own: issuance is asked about a height, and then
   about a later one, by one build. *)

\* The most halvings asked about.
MaxHalvings == 65

\* The first and the last height of each halving period.
Heights ==
    {k * HALVING_EVERY_BLOCKS + d : k \in 0..MaxHalvings, d \in {0, HALVING_EVERY_BLOCKS - 1}}

IssuanceInit ==
    /\ UtxoStore = GenesisStore
    /\ RewardTotal = 0
    /\ block_number = 1
    /\ events = <<>>
    /\ last = Called("genesis", None, <<>>, TRUE, "")
    /\ pre = [store |-> GenesisStore, total |-> 0]
    /\ applied = {}
    /\ nSpends = 0
    /\ queried = <<>>
    /\ verdict = Ok(0)
    /\ height \in Heights
    /\ subsidy = NotIssued
    /\ earlier = NotIssued

Issue ==
    /\ ~subsidy.called
    /\ \E overflow_checks \in BOOLEAN : subsidy' = issuance(height, overflow_checks)
    /\ UNCHANGED <<UtxoStore, RewardTotal, block_number, events, last, pre, applied,
                   nSpends, queried, verdict, height, earlier>>

IssueLater ==
    /\ subsidy.called
    /\ ~earlier.called
    /\ \E h \in Heights :
         /\ h > height
         /\ height' = h
         /\ earlier' = subsidy
         /\ subsidy' = issuance(h, subsidy.checks)
    /\ UNCHANGED <<UtxoStore, RewardTotal, block_number, events, last, pre, applied,
                   nSpends, queried, verdict>>

IssuanceNext == Issue \/ IssueLater

IssuanceSpec == IssuanceInit /\ [][IssuanceNext]_vars

\* floor(50 / 2^k)
Halved(k) == IF k >= 6 THEN 0 ELSE INITIAL_ISSUANCE \div (2 ^ k)

\* C11: issuance(h) is floor(50 / 2^(h div 210000)) while h div 210000 < 64 and
\* 0 from 64 * 210000 on, 50 at 209999 and 25 at 210000, and it never
\* increases with h.  (It fails.)
C11_HalvingSchedule ==
    subsidy.called =>
        /\ ~subsidy.panic
        /\ subsidy.value = (IF height \div 210000 < 64 THEN Halved(height \div 210000) ELSE 0)
        /\ height = 209999 => subsidy.value = 50
        /\ height = 210000 => subsidy.value = 25
        /\ earlier.called /\ ~earlier.panic => subsidy.value <= earlier.value

\* C20: issuance returns a value at every height, and never shifts
\* INITIAL_ISSUANCE by its width or more.  (It fails.)
C20_IssuanceTotal ==
    subsidy.called =>
        /\ ~subsidy.panic
        /\ subsidy.shift < 32

====
